---- MODULE Spec2Model ----
(***************************************************************************)
(* TreeMap<K, V> of src/tree/src/rbtree.cpp: a red-black tree map whose    *)
(* nodes are linked by parent / left / right pointers.  A tree is a record *)
(*   [nodes, root, size, err]                                              *)
(* where nodes maps a node identity (the address held by a PNode) to the   *)
(* node's fields, root and size are the members root and _size, and err    *)
(* records that the running operation has stopped: "null" when it read     *)
(* through a null PNode, "assert" when an assert() failed.                 *)
(***************************************************************************)
EXTENDS Integers, Sequences, FiniteSets, TLC

\* ------------------------------------------------------------------ bounds
\* keys of the runs that look at the shape of the tree
MaxKey == 5
\* keys and values of the runs that look at the stored values
MaxKeyV == 3
MaxVal == 1
\* keys of the runs that count inserts and removes and of the runs that
\* iterate, successful removes of the runs that count
MaxKeyC == 4
MaxRemoves == 3
\* SegTree: the array size and the number of seg_update calls of a run
MaxN == 3
MaxUpdates == 2
\* bst: the keys are 1..MaxBstKey, and a key is inserted at most MaxCount
\* times more often than it is removed
MaxBstKey == 4
MaxCount == 2

Keys == 1..MaxKey
KeysV == 1..MaxKeyV
Values == 0..MaxVal
KeysC == 1..MaxKeyC
\* SegTree: the values of the base array and the increments of seg_update.
\* Every sum and tag is a sum of base values and of multiples of increments,
\* and a tag is only ever tested against zero: two base values, and two
\* increments that cancel, reach a zero and a non-zero tag of either sign.
BstKeys == 1..MaxBstKey
BaseVals == {0, 1}
Incs == {-1, 1}

\* --------------------------------------------------------------- constants
NULL == 0
ROOT == 0
LEFT == -1
RIGHT == 1
RED == "RED"
BLACK == "BLACK"
DefaultV == 0

\* Direction operator-(Direction dir)
NegDir(dir) == 0 - dir

\* ------------------------------------------------------------------- nodes
N(t, n) == t.nodes[n]

Fail(t, e) == [t EXCEPT !.err = e]

\* explicit Node(K key, V value): RED, no parent, no children
Node(key, value) ==
    [key |-> key, value |-> value, color |-> RED,
     parent |-> NULL, left |-> NULL, right |-> NULL]

is_red(t, n) == N(t, n).color = RED

is_black(t, n) == N(t, n).color = BLACK

is_leaf(t, n) == N(t, n).left = NULL /\ N(t, n).right = NULL

only_child(t, n) == IF N(t, n).left # NULL THEN N(t, n).left ELSE N(t, n).right

direction(t, n) ==
    IF N(t, n).parent = NULL THEN ROOT
    ELSE IF n = N(t, N(t, n).parent).left THEN LEFT ELSE RIGHT

\* Node::sibling(); the caller has checked that n has a parent (with no
\* parent the code reads parent->left through a null pointer).
sibling(t, n) ==
    IF direction(t, n) = LEFT THEN N(t, N(t, n).parent).right
    ELSE N(t, N(t, n).parent).left

\* Node::max(): starts at the RIGHT CHILD of n and walks right; NULL stands
\* for the null dereference of `node->right` when n has no right child.
RECURSIVE WalkRight(_, _)
WalkRight(t, n) == IF N(t, n).right = NULL THEN n ELSE WalkRight(t, N(t, n).right)

max(t, n) == IF N(t, n).right = NULL THEN NULL ELSE WalkRight(t, N(t, n).right)

\* prev() taken to be the left child itself
prev_left(t, n) == N(t, n).left

\* Node::prev(): left->max(); the caller has checked assert(left).
prev(t, n) == max(t, N(t, n).left)

\* ------------------------------------------------------------ sequencing
\* F applied to the value of e: the statements after `x = e;`
With(e, F(_)) == F(e)

\* the statements F that follow a call, unless the call stopped the operation
Then(t, F(_)) == IF t.err # "" THEN t ELSE F(t)

\* --------------------------------------------------------------- rotations
_replace_node(t, old, rep) ==
    LET p == N(t, old).parent
    IN  With(direction(t, old), LAMBDA d :
        With(IF d = LEFT THEN [t EXCEPT !.nodes[p].left = rep]
             ELSE IF d = RIGHT THEN [t EXCEPT !.nodes[p].right = rep]
             ELSE [t EXCEPT !.root = rep], LAMBDA t1 :
        IF rep # NULL THEN [t1 EXCEPT !.nodes[rep].parent = p] ELSE t1))

\* _rotate_left without `if (node->right) node->right->parent = node`
_rotate_left_no_relink(t, node) ==
    LET rep == N(t, node).right
    IN  IF rep = NULL THEN Fail(t, "null")
        ELSE
        With(_replace_node(t, node, rep), LAMBDA t1 :
        With([t1 EXCEPT !.nodes[node].parent = rep,
                        !.nodes[node].right = N(t1, rep).left], LAMBDA t2 :
        [t2 EXCEPT !.nodes[rep].left = node]))

\* rep->left is read through rep: a null rep stops the operation
_rotate_left(t, node) ==
    LET rep == N(t, node).right
    IN  IF rep = NULL THEN Fail(t, "null")
        ELSE
        With(_replace_node(t, node, rep), LAMBDA t1 :
        With([t1 EXCEPT !.nodes[node].parent = rep,
                        !.nodes[node].right = N(t1, rep).left], LAMBDA t2 :
        With(IF N(t2, node).right # NULL
             THEN [t2 EXCEPT !.nodes[N(t2, node).right].parent = node]
             ELSE t2, LAMBDA t3 :
        [t3 EXCEPT !.nodes[rep].left = node])))

_rotate_right(t, node) ==
    LET rep == N(t, node).left
    IN  IF rep = NULL THEN Fail(t, "null")
        ELSE
        With(_replace_node(t, node, rep), LAMBDA t1 :
        With([t1 EXCEPT !.nodes[node].parent = rep,
                        !.nodes[node].left = N(t1, rep).right], LAMBDA t2 :
        With(IF N(t2, node).left # NULL
             THEN [t2 EXCEPT !.nodes[N(t2, node).left].parent = node]
             ELSE t2, LAMBDA t3 :
        [t3 EXCEPT !.nodes[rep].right = node])))

_rotate(t, node, dir) ==
    IF dir = LEFT THEN _rotate_left(t, node) ELSE _rotate_right(t, node)

\* ------------------------------------------------------------------ lookup
\* _get: the node holding key below `node`, NULL when on_not_found is called.
RECURSIVE _get(_, _, _)
_get(t, key, node) ==
    IF node = NULL THEN NULL
    ELSE IF key = N(t, node).key THEN node
    ELSE _get(t, key, IF key < N(t, node).key THEN N(t, node).left
                      ELSE N(t, node).right)

\* ------------------------------------------------------------------ insert
\* Case 5 with the two recolourings left out
InsertCase5_rotate_only(t, node, parent, grandparent) ==
    With(direction(t, parent), LAMBDA parentDir :
    Then(IF direction(t, node) # parentDir
         THEN _rotate(t, parent, parentDir) ELSE t, LAMBDA t1 :
    _rotate(t1, grandparent, NegDir(parentDir))))

\* Case 5 of _maintain_after_insert: parent is red and uncle is black
InsertCase5(t, node, parent, grandparent) ==
    With(direction(t, parent), LAMBDA parentDir :
    \* Case 5.1
    Then(IF direction(t, node) # parentDir
         THEN _rotate(t, parent, parentDir) ELSE t, LAMBDA t1 :
    \* Case 5.2
    Then(_rotate(t1, grandparent, NegDir(parentDir)), LAMBDA t2 :
    [t2 EXCEPT !.nodes[parent].color = BLACK,
               !.nodes[grandparent].color = RED])))

RECURSIVE _maintain_after_insert(_, _)
_maintain_after_insert(t, node) ==
    LET parent == N(t, node).parent
    IN  \* Case 1, Case 2
        IF parent = NULL \/ is_black(t, parent) THEN t
        \* Case 3
        ELSE IF parent = t.root THEN [t EXCEPT !.nodes[parent].color = BLACK]
        \* parent->sibling() and grandparent->color read through parent->parent
        ELSE IF N(t, parent).parent = NULL THEN Fail(t, "null")
        ELSE
        LET grandparent == N(t, parent).parent
        IN  With(sibling(t, parent), LAMBDA uncle :
            \* Case 4
            IF uncle # NULL /\ is_red(t, uncle)
            THEN _maintain_after_insert(
                     [t EXCEPT !.nodes[parent].color = BLACK,
                               !.nodes[uncle].color = BLACK,
                               !.nodes[grandparent].color = RED],
                     grandparent)
            ELSE InsertCase5(t, node, parent, grandparent))

\* _insert without `++ _size`
_insert_nocount(t, node) == _maintain_after_insert(t, node)

_insert(t, node) == _maintain_after_insert([t EXCEPT !.size = @ + 1], node)

\* A PNode& is a place that holds a pointer: the member root (owner NULL) or
\* the left / right field of the node `owner`.
RootSlot == [owner |-> NULL, side |-> ROOT]

Deref(t, slot) ==
    IF slot.owner = NULL THEN t.root
    ELSE IF slot.side = LEFT THEN N(t, slot.owner).left
    ELSE N(t, slot.owner).right

Assign(t, slot, n) ==
    IF slot.owner = NULL THEN [t EXCEPT !.root = n]
    ELSE IF slot.side = LEFT THEN [t EXCEPT !.nodes[slot.owner].left = n]
    ELSE [t EXCEPT !.nodes[slot.owner].right = n]

\* make_shared<Node>: an identity no live node has
NewId(t) ==
    CHOOSE i \in 1..(Cardinality(DOMAIN t.nodes) + 1) :
        /\ i \notin DOMAIN t.nodes
        /\ \A j \in 1..(i - 1) : j \in DOMAIN t.nodes

\* node = Node::from(key, func()); node->parent = parent;
Link(t, id, key, value, slot, parent) ==
    Assign([t EXCEPT !.nodes = [i \in DOMAIN t.nodes \cup {id} |->
                                   IF i = id
                                   THEN [Node(key, value) EXCEPT !.parent = parent]
                                   ELSE t.nodes[i]]],
           slot, id)

\* _get_or_insert(key, func, node, parent), func returning `value`.
\* The result is [t, ref, calls]: the tree, the node whose value the returned
\* V& refers to (NULL when the V& was formed through a null PNode), and the
\* number of times func was called.  `node` is a PNode&, so the `node->value`
\* of the insert branch reads the place again AFTER _insert has rebalanced.
RECURSIVE _get_or_insert(_, _, _, _, _)
_get_or_insert(t, key, value, slot, parent) ==
    LET node == Deref(t, slot)
    IN  IF node = NULL
        THEN With(NewId(t), LAMBDA id :
             With(_insert(Link(t, id, key, value, slot, parent), id), LAMBDA t4 :
             [t |-> t4,
              ref |-> IF t4.err # "" THEN NULL ELSE Deref(t4, slot),
              calls |-> 1]))
        ELSE IF key < N(t, node).key
        THEN _get_or_insert(t, key, value, [owner |-> node, side |-> LEFT], node)
        ELSE IF key > N(t, node).key
        THEN _get_or_insert(t, key, value, [owner |-> node, side |-> RIGHT], node)
        ELSE [t |-> t, ref |-> node, calls |-> 0]

\* get_or_insert that calls func before it looks the key up
get_or_insert_eager(t, key, value) ==
    [_get_or_insert(t, key, value, RootSlot, NULL) EXCEPT !.calls = 1]

get_or_insert(t, key, value) == _get_or_insert(t, key, value, RootSlot, NULL)

\* set(key, value): get_or_insert with a function returning value
set(t, key, value) == get_or_insert(t, key, value)

\* V& operator[](key): get_or_insert with a function returning V()
index(t, key) == get_or_insert(t, key, DefaultV)

\* tree[key] = value: the assignment writes through the V& of operator[]
index_assign(t, key, value) ==
    With(index(t, key), LAMBDA r :
    IF r.t.err # "" THEN r
    ELSE IF r.ref = NULL THEN [r EXCEPT !.t = Fail(r.t, "null")]
    ELSE [r EXCEPT !.t = [r.t EXCEPT !.nodes[r.ref].value = value]])

\* ------------------------------------------------------------------ remove
\* Case 1 of _maintain_after_remove: sibling is red
RemoveCase1(t, node, parent, sibling0) ==
    IF is_red(t, sibling0)
    THEN Then(_rotate(t, parent, direction(t, node)), LAMBDA r :
         [r EXCEPT !.nodes[sibling0].color = BLACK,
                   !.nodes[parent].color = RED])
    ELSE t

\* Case 4 of _maintain_after_remove: close nephew is red
RemoveCase4(t, sibling1, closeNephew) ==
    Then(_rotate(t, sibling1, direction(t, sibling1)), LAMBDA r :
    [r EXCEPT !.nodes[closeNephew].color = BLACK,
              !.nodes[sibling1].color = RED])

\* Case 5 with the distant nephew left RED
RemoveCase5_nephew_red(t, node, parent, sibling2, distantNephew2) ==
    Then(_rotate(t, parent, direction(t, node)), LAMBDA t3 :
    With([t3 EXCEPT !.nodes[sibling2].color = N(t3, parent).color], LAMBDA t4 :
    [t4 EXCEPT !.nodes[parent].color = BLACK]))

\* Case 5 of _maintain_after_remove: distant nephew is red
RemoveCase5(t, node, parent, sibling2, distantNephew2) ==
    Then(_rotate(t, parent, direction(t, node)), LAMBDA t3 :
    With([t3 EXCEPT !.nodes[sibling2].color = N(t3, parent).color], LAMBDA t4 :
    With([t4 EXCEPT !.nodes[parent].color = BLACK], LAMBDA t5 :
    [t5 EXCEPT !.nodes[distantNephew2].color = BLACK])))

\* nd: the build defines NDEBUG, so assert() checks nothing.
RECURSIVE _maintain_after_remove(_, _, _)
_maintain_after_remove(t, node, nd) ==
    IF ~nd /\ ~(is_black(t, node) /\ is_leaf(t, node)) THEN Fail(t, "assert")
    \* node->sibling() reads parent->left
    ELSE IF N(t, node).parent = NULL THEN Fail(t, "null")
    \* sibling->is_red()
    ELSE IF sibling(t, node) = NULL THEN Fail(t, "null")
    ELSE
    LET parent == N(t, node).parent
    IN  Then(RemoveCase1(t, node, parent, sibling(t, node)), LAMBDA t1 :
        With(sibling(t1, node), LAMBDA sibling1 :
        \* sibling->left / sibling->right
        IF sibling1 = NULL THEN Fail(t1, "null")
        ELSE
        LET dir1 == direction(t1, node)
            closeNephew == IF dir1 = LEFT THEN N(t1, sibling1).left
                           ELSE N(t1, sibling1).right
            distantNephew == IF dir1 = LEFT THEN N(t1, sibling1).right
                             ELSE N(t1, sibling1).left
        IN  With(closeNephew = NULL \/ is_black(t1, closeNephew),
                 LAMBDA closeNephewIsBlack :
            With(distantNephew = NULL \/ is_black(t1, distantNephew),
                 LAMBDA distantNephewIsBlack :
            IF closeNephewIsBlack /\ distantNephewIsBlack
            THEN \* Case 2
                 IF is_red(t1, parent)
                 THEN [t1 EXCEPT !.nodes[parent].color = BLACK,
                                 !.nodes[sibling1].color = RED]
                 \* Case 3
                 ELSE _maintain_after_remove(
                          [t1 EXCEPT !.nodes[sibling1].color = RED], parent, nd)
            ELSE IF ~closeNephewIsBlack
            THEN Then(RemoveCase4(t1, sibling1, closeNephew), LAMBDA t2 :
                 RemoveCase5(t2, node, parent, closeNephew, sibling1))
            ELSE RemoveCase5(t1, node, parent, sibling1, distantNephew)))))

\* Cases 3 and 4 of _remove_node, on the node that leaves the tree
Detach(t, node, nd) ==
    With(only_child(t, node), LAMBDA child :
    \* Case 3
    IF child # NULL
    THEN With(_replace_node(t, node, child), LAMBDA r :
         [r EXCEPT !.nodes[child].color = BLACK])
    \* Case 4
    ELSE Then(IF is_black(t, node) THEN _maintain_after_remove(t, node, nd)
              ELSE t, LAMBDA t2 :
         _replace_node(t2, node, NULL)))

_remove_node(t, node, nd) ==
    \* Case 1
    IF t.size = 1 THEN [t EXCEPT !.root = NULL]
    \* Case 2
    ELSE IF N(t, node).left # NULL /\ N(t, node).right # NULL
    THEN With(prev(t, node), LAMBDA pr :
         \* left->max() read through a null pointer
         IF pr = NULL THEN Fail(t, "null")
         ELSE Detach([t EXCEPT !.nodes[node].key = N(t, pr).key,
                               !.nodes[node].value = N(t, pr).value],
                     pr, nd))
    ELSE Detach(t, node, nd)

\* remove with `-- _size` done before the lookup
remove_dec_first(t, key, nd) ==
    With(_get(t, key, t.root), LAMBDA node :
    IF node = NULL THEN [t |-> [t EXCEPT !.size = @ - 1], ret |-> FALSE]
    ELSE With(_remove_node(t, node, nd), LAMBDA r :
         [t |-> IF r.err # "" THEN r ELSE [r EXCEPT !.size = @ - 1],
          ret |-> TRUE]))

\* remove(key): [t, ret]
remove(t, key, nd) ==
    With(_get(t, key, t.root), LAMBDA node :
    IF node = NULL THEN [t |-> t, ret |-> FALSE]
    ELSE With(_remove_node(t, node, nd), LAMBDA r :
         [t |-> IF r.err # "" THEN r ELSE [r EXCEPT !.size = @ - 1],
          ret |-> TRUE]))

empty(t) == t.size = 0

\* ---------------------------------------------------------------- iterator
\* IteratorBase: a std::stack<PNode>, here a sequence whose last element is
\* the top.
\* push_lefts with `if (node)` in place of `while (node)`
push_lefts_once(t, stack, node) ==
    IF node = NULL THEN stack ELSE Append(stack, node)

RECURSIVE push_lefts(_, _, _)
push_lefts(t, stack, node) ==
    IF node = NULL THEN stack
    ELSE push_lefts(t, Append(stack, node), N(t, node).left)

\* IteratorBase(PNode root)
IteratorBase(t, node) == push_lefts(t, <<>>, node)

\* key_end(): { nullptr }
key_end(t) == IteratorBase(t, NULL)

\* key_begin()
key_begin(t) == IF empty(t) THEN key_end(t) ELSE IteratorBase(t, t.root)

\* operator++; the caller has checked that the stack is not empty
\* (stack.top() of an empty stack is undefined)
IterInc(t, stack) ==
    With(stack[Len(stack)], LAMBDA top :
    push_lefts(t, SubSeq(stack, 1, Len(stack) - 1), N(t, top).right))

\* operator* of a KeyIterator: KeyDerefer(stack.top())
IterKey(t, stack) == N(t, stack[Len(stack)]).key

\* operator==
IterEq(s1, s2) ==
    IF s1 = <<>> /\ s2 = <<>> THEN TRUE
    ELSE IF Len(s1) # Len(s2) THEN FALSE
    ELSE s1[Len(s1)] = s2[Len(s2)]

\* ------------------------------------------------------- node identities
\* The nodes a tree still holds: those reached from root through left /
\* right, and whatever their parent pointers keep alive (PNode is a
\* shared_ptr, so a node nothing points to is destroyed).
RECURSIVE Closure(_, _)
Closure(t, S) ==
    LET S2 == S \cup { x \in UNION {{N(t, n).left, N(t, n).right, N(t, n).parent} : n \in S} :
                       x # NULL }
    IN  IF S2 = S THEN S ELSE Closure(t, S2)

Live(t) == IF t.root = NULL THEN {} ELSE Closure(t, {t.root})

\* parent pointers and child pointers describe one tree hanging from root
WellLinked(t) ==
    LET L == Live(t)
    IN  /\ t.root # NULL => N(t, t.root).parent = NULL
        /\ \A n \in L :
              /\ N(t, n).left # NULL => N(t, N(t, n).left).parent = n
              /\ N(t, n).right # NULL => N(t, N(t, n).right).parent = n
              /\ N(t, n).left # NULL => N(t, n).left # N(t, n).right
              /\ n # t.root =>
                    /\ N(t, n).parent # NULL
                    /\ n \in {N(t, N(t, n).parent).left, N(t, N(t, n).parent).right}

RECURSIVE InOrder(_, _)
InOrder(t, n) ==
    IF n = NULL THEN <<>>
    ELSE InOrder(t, N(t, n).left) \o <<n>> \o InOrder(t, N(t, n).right)

\* Addresses carry no meaning: a well linked tree is stored with its nodes
\* named 1..n in in-order position, so that two trees that differ only in
\* where their nodes were allocated are one state.
Canon(t) ==
    IF ~WellLinked(t) THEN [t EXCEPT !.nodes = [n \in Live(t) |-> t.nodes[n]]]
    ELSE LET io == InOrder(t, t.root)
             rank(n) == IF n = NULL THEN NULL
                        ELSE CHOOSE i \in 1..Len(io) : io[i] = n
         IN  [t EXCEPT !.root = rank(t.root),
                       !.nodes = [i \in 1..Len(io) |->
                                     [N(t, io[i]) EXCEPT !.parent = rank(@),
                                                         !.left = rank(@),
                                                         !.right = rank(@)]]]

\* ----------------------------------------------------------------- SegTree
\* SegTree<T> of src/tree/src/segtree.cpp.  segs is the std::vector<Seg>, a
\* function on 0..(4 * size - 1); an array base[0..size-1] is the sequence
\* base[1..size].
Seg(sum, tag) == [sum |-> sum, tag |-> tag]

\* _build: [segs, sum]
RECURSIVE _build(_, _, _, _, _)
_build(segs, base, start, end, id) ==
    IF start = end
    THEN [segs |-> [segs EXCEPT ![id] = Seg(base[start + 1], 0)],
          sum |-> base[start + 1]]
    ELSE LET mid == (start + end) \div 2
         IN  With(_build(segs, base, start, mid, id * 2), LAMBDA l :
             With(_build(l.segs, base, mid + 1, end, id * 2 + 1), LAMBDA r :
             [segs |-> [r.segs EXCEPT ![id] = Seg(l.sum + r.sum, 0)],
              sum |-> l.sum + r.sum]))

\* _push_down without the two `sum +=`
_push_down_tags_only(segs, id, start, end, mid) ==
    With(segs[id].tag, LAMBDA tag :
    [segs EXCEPT ![id * 2].tag = @ + tag,
                 ![id * 2 + 1].tag = @ + tag,
                 ![id].tag = 0])

\* _push_down(seg, left, right, start, end, mid) with seg = segs[id],
\* left = segs[id * 2], right = segs[id * 2 + 1].  seg.tag * (mid - start + 1)
\* is a product of a T and a size_t: for the program's T = long long it is
\* taken modulo 2^64 and added modulo 2^64, which is the integer result
\* whenever that fits a long long, as every value here does.
_push_down(segs, id, start, end, mid) ==
    With(segs[id].tag, LAMBDA tag :
    [segs EXCEPT ![id * 2].tag = @ + tag,
                 ![id * 2].sum = @ + tag * (mid - start + 1),
                 ![id * 2 + 1].tag = @ + tag,
                 ![id * 2 + 1].sum = @ + tag * (end - mid),
                 ![id].tag = 0])

\* the references left and right are taken, and seg.tag pushed down
Pushed(segs, id, start, end) ==
    With((start + end) \div 2, LAMBDA mid :
    With(segs[id * 2], LAMBDA left :
    With(segs[id * 2 + 1], LAMBDA right :
    IF segs[id].tag # 0 THEN _push_down(segs, id, start, end, mid) ELSE segs)))

\* _query: [segs, sum]
RECURSIVE _query(_, _, _, _, _, _)
_query(segs, qstart, qend, start, end, id) ==
    IF qstart <= start /\ end <= qend
    THEN [segs |-> segs, sum |-> segs[id].sum]
    ELSE
    LET mid == (start + end) \div 2
    IN  With(Pushed(segs, id, start, end), LAMBDA s1 :
        With(IF qstart <= mid
             THEN _query(s1, qstart, qend, start, mid, id * 2)
             ELSE [segs |-> s1, sum |-> 0], LAMBDA l :
        With(IF qend > mid
             THEN _query(l.segs, qstart, qend, mid + 1, end, id * 2 + 1)
             ELSE [segs |-> l.segs, sum |-> 0], LAMBDA r :
        [segs |-> r.segs, sum |-> l.sum + r.sum])))

RECURSIVE _seg_update(_, _, _, _, _, _, _)
_seg_update(segs, qstart, qend, inc, start, end, id) ==
    IF qstart <= start /\ end <= qend
    THEN [segs EXCEPT ![id].tag = @ + inc,
                      ![id].sum = @ + inc * (end - start + 1)]
    ELSE
    LET mid == (start + end) \div 2
    IN  With(Pushed(segs, id, start, end), LAMBDA s1 :
        With(IF qstart <= mid
             THEN _seg_update(s1, qstart, qend, inc, start, mid, id * 2)
             ELSE s1, LAMBDA s2 :
        With(IF qend > mid
             THEN _seg_update(s2, qstart, qend, inc, mid + 1, end, id * 2 + 1)
             ELSE s2, LAMBDA s3 :
        [s3 EXCEPT ![id].sum = s3[id * 2].sum + s3[id * 2 + 1].sum])))

\* SegTree(base, size): segs.resize(size * 4); _build(base, 0, size - 1, 1)
SegTree(base) ==
    With(Len(base), LAMBDA n :
    [size |-> n,
     segs |-> _build([i \in 0..(n * 4 - 1) |-> Seg(0, 0)], base, 0, n - 1, 1).segs])

\* query(qstart, qend): [segs, sum]
query(st, qstart, qend) == _query(st.segs, qstart, qend, 0, st.size - 1, 1)

\* seg_update(qstart, qend, inc): segs
seg_update(st, qstart, qend, inc) ==
    _seg_update(st.segs, qstart, qend, inc, 0, st.size - 1, 1)

\* --------------------------------------------------------------------- bst
\* namespace tree::bst of src/tree/src/bst.cpp.  A tree is the heap of its
\* nodes and the root pointer, [nodes, root]; a shared_ptr<Node<K>>& argument
\* is the slot it refers to, as a PNode& is above.
BstNode(data) == [data |-> data, count |-> 1, left |-> NULL, right |-> NULL]

\* bst::insert(tree, data)
RECURSIVE bst_insert(_, _, _)
bst_insert(t, slot, data) ==
    With(Deref(t, slot), LAMBDA tree :
    IF tree = NULL
    THEN With(NewId(t), LAMBDA id :
         Assign([t EXCEPT !.nodes = [i \in DOMAIN t.nodes \cup {id} |->
                                        IF i = id THEN BstNode(data) ELSE t.nodes[i]]],
                slot, id))
    ELSE IF data = N(t, tree).data
    THEN [t EXCEPT !.nodes[tree].count = @ + 1]
    ELSE IF data < N(t, tree).data
    THEN bst_insert(t, [owner |-> tree, side |-> LEFT], data)
    ELSE bst_insert(t, [owner |-> tree, side |-> RIGHT], data))

\* bst::find_min(tree)
RECURSIVE bst_find_min(_, _)
bst_find_min(t, tree) ==
    IF tree = NULL THEN NULL
    ELSE IF N(t, tree).left = NULL THEN tree
    ELSE bst_find_min(t, N(t, tree).left)

\* bst::remove(tree, data): [t, ret], ret the pointer returned.  In the
\* branch of two children `tree` is read again after `tree = succ`: it is
\* the slot, which now holds succ.
RECURSIVE bst_remove(_, _, _)
bst_remove(t, slot, data) ==
    With(Deref(t, slot), LAMBDA tree :
    IF tree = NULL THEN [t |-> t, ret |-> NULL]
    ELSE IF data < N(t, tree).data
    THEN bst_remove(t, [owner |-> tree, side |-> LEFT], data)
    ELSE IF data > N(t, tree).data
    THEN bst_remove(t, [owner |-> tree, side |-> RIGHT], data)
    ELSE IF N(t, tree).count > 1
    THEN [t |-> [t EXCEPT !.nodes[tree].count = @ - 1], ret |-> tree]
    ELSE
    With(tree, LAMBDA removed :
    IF N(t, tree).left # NULL /\ N(t, tree).right # NULL
    THEN With(bst_find_min(t, N(t, tree).right), LAMBDA succ :
         With(Assign(t, slot, succ), LAMBDA t1 :
         With([t1 EXCEPT !.nodes[Deref(t1, slot)].left = N(t1, removed).left],
              LAMBDA t2 :
         With(bst_remove(t2, [owner |-> Deref(t2, slot), side |-> RIGHT],
                         N(t2, succ).data), LAMBDA r :
         [t |-> [r.t EXCEPT !.nodes[removed].left = NULL,
                            !.nodes[removed].right = NULL],
          ret |-> removed]))))
    ELSE IF N(t, tree).left # NULL
    THEN [t |-> Assign(t, slot, N(t, tree).left), ret |-> removed]
    ELSE IF N(t, tree).right # NULL
    THEN [t |-> Assign(t, slot, N(t, tree).right), ret |-> removed]
    ELSE [t |-> Assign(t, slot, NULL), ret |-> removed]))

\* the nodes the root owns, left to right
BstInOrder(t) == InOrder(t, t.root)

\* A node no shared_ptr of the tree owns is gone, and addresses carry no
\* meaning: the nodes the root owns are named 1..n in in-order position.
BstCanon(t) ==
    LET io == BstInOrder(t)
        rank(n) == IF n = NULL THEN NULL
                   ELSE CHOOSE i \in 1..Len(io) : io[i] = n
    IN  [nodes |-> [i \in 1..Len(io) |->
                       [N(t, io[i]) EXCEPT !.left = rank(@), !.right = rank(@)]],
         root |-> rank(t.root)]

\* ------------------------------------------------------------------ state
\* nodes, root, size: the TreeMap; ndebug: the build defines NDEBUG;
\* fatal: how the process died ("none" while it runs); last: the last call.
\* everInserted, created, removedOk count calls (only NextCount moves them):
\* the keys ever inserted, the nodes ever created, the removes that gave true.
\* pc: the statement of main() that runs next; iter: the KeyIterator of a
\* range-for loop over tree.keys (only NextMain moves pc, only NextIter iter).
\* seg: the SegTree of segtree.cpp's program (size 0: not constructed yet),
\* with the array a plain implementation would hold (ref), the number of
\* seg_update calls made and the last call (only NextSeg moves it).
\* bst: the tree of bst.cpp's program, with the multiset a plain
\* implementation would hold (ref: key -> count) and the last call (only
\* NextBst moves it).
VARIABLES nodes, root, size, ndebug, fatal, last, everInserted, created,
          removedOk, pc, iter, seg, bst

vars == <<nodes, root, size, ndebug, fatal, last, everInserted, created,
          removedOk, pc, iter, seg, bst>>

\* the tree the program holds
Tree == [nodes |-> nodes, root |-> root, size |-> size, err |-> ""]

\* what the last call was and what it gave back: found is the bool of
\* remove, calls the number of factory calls, dangling tells that the
\* returned V& was formed through a null PNode
Last(op, found, dangling, calls) ==
    [op |-> op, found |-> found, dangling |-> dangling, calls |-> calls]

\* no range-for loop runs: there is no iterator
NoIterator == [on |-> FALSE, stack |-> <<>>, yielded |-> <<>>, begun |-> <<>>]

\* segtree.cpp's program before SegTree<long long> segtree(base)
NoSegTree == [size |-> 0, segs |-> <<>>, ref |-> <<>>, updates |-> 0,
              op |-> [name |-> "none"]]

\* bst.cpp's main: shared_ptr<tree::Node<Point>> t { nullptr }
EmptyBst == [nodes |-> <<>>, root |-> NULL, ref |-> [k \in BstKeys |-> 0],
             op |-> [name |-> "none"]]

\* TreeMap(): root(nullptr), _size(0)
Init ==
    /\ nodes = <<>>
    /\ root = NULL
    /\ size = 0
    /\ ndebug \in BOOLEAN
    /\ fatal = "none"
    /\ last = Last("init", FALSE, FALSE, 0)
    /\ everInserted = {}
    /\ created = 0
    /\ removedOk = 0
    /\ pc = 1
    /\ iter = NoIterator
    /\ seg = NoSegTree
    /\ bst = EmptyBst

\* A read through a null pointer is undefined: the process is killed by the
\* fault, or by the library's null check in shared_ptr::operator->.
NullReadOutcomes == {"segv", "abort"}

\* Forming `node->value` through a null PNode without using the reference
\* is undefined as well; a build may also carry on with a reference to no
\* object.
NullRefOutcomes == {"none", "segv", "abort"}

Commit(t) ==
    LET c == Canon(t)
    IN  /\ nodes' = c.nodes
        /\ root' = c.root
        /\ size' = c.size

\* the operation ran to its end on tree t / the process died with outcome o
Done(t, l) == Commit(t) /\ fatal' = "none" /\ last' = l /\ UNCHANGED ndebug

Stop(o, l) == fatal' = o /\ last' = l /\ UNCHANGED <<nodes, root, size, ndebug>>

Outcome(t, l) ==
    IF t.err = "" THEN Done(t, l)
    ELSE IF t.err = "assert" THEN Stop("abort", l)
    ELSE \E o \in NullReadOutcomes : Stop(o, l)

\* the caller of an inserting accessor drops the returned V&
InsertOutcome(r, op) ==
    LET l == Last(op, FALSE, r.t.err = "" /\ r.ref = NULL, r.calls)
    IN  IF r.t.err # "" THEN Outcome(r.t, l)
        ELSE IF r.ref = NULL
        THEN \E o \in NullRefOutcomes :
                IF o = "none" THEN Done(r.t, l) ELSE Stop(o, l)
        ELSE Done(r.t, l)

\* tree.set(k, v);
Set(k, v) ==
    /\ fatal = "none"
    /\ InsertOutcome(set(Tree, k, v), "set")

\* tree.get_or_insert(k, [] { return v; });
GetOrInsert(k, v) ==
    /\ fatal = "none"
    /\ InsertOutcome(get_or_insert(Tree, k, v), "get_or_insert")

\* tree[k] = v;
IndexAssign(k, v) ==
    /\ fatal = "none"
    /\ InsertOutcome(index_assign(Tree, k, v), "index_assign")

RemoveOutcome(r) ==
    Outcome(r.t, Last("remove", r.ret /\ r.t.err = "", FALSE, 0))

\* tree.remove(k);
Remove(k) ==
    /\ fatal = "none"
    /\ RemoveOutcome(remove(Tree, k, ndebug))

InsertOps == {"set", "get_or_insert", "index_assign"}

NoCount == UNCHANGED <<everInserted, created, removedOk>>

NoMain == UNCHANGED pc

NoIter == UNCHANGED iter

\* the program of rbtree.cpp runs, the others do not
RbTreeOnly == UNCHANGED <<seg, bst>>

\* the call just made, on key k, counted
Count(k) ==
    /\ everInserted' = IF fatal' = "none" /\ last'.op \in InsertOps
                       THEN everInserted \cup {k} ELSE everInserted
    /\ created' = IF fatal' = "none" THEN created + last'.calls ELSE created
    /\ removedOk' = IF fatal' = "none" /\ last'.found THEN removedOk + 1 ELSE removedOk

\* Shape: any calls on keys 1..MaxKey, every stored value the default one.
Next ==
    \/ \E k \in Keys : Set(k, DefaultV) /\ NoCount /\ NoMain /\ NoIter /\ RbTreeOnly
    \/ \E k \in Keys : GetOrInsert(k, DefaultV) /\ NoCount /\ NoMain /\ NoIter /\ RbTreeOnly
    \/ \E k \in Keys : IndexAssign(k, DefaultV) /\ NoCount /\ NoMain /\ NoIter /\ RbTreeOnly
    \/ \E k \in Keys : Remove(k) /\ NoCount /\ NoMain /\ NoIter /\ RbTreeOnly

Spec == Init /\ [][Next]_vars

\* Values: any calls on keys 1..MaxKeyV with values 0..MaxVal.
NextVal ==
    \/ \E k \in KeysV, v \in Values : Set(k, v) /\ NoCount /\ NoMain /\ NoIter /\ RbTreeOnly
    \/ \E k \in KeysV, v \in Values : GetOrInsert(k, v) /\ NoCount /\ NoMain /\ NoIter /\ RbTreeOnly
    \/ \E k \in KeysV, v \in Values : IndexAssign(k, v) /\ NoCount /\ NoMain /\ NoIter /\ RbTreeOnly
    \/ \E k \in KeysV : Remove(k) /\ NoCount /\ NoMain /\ NoIter /\ RbTreeOnly

SpecVal == Init /\ [][NextVal]_vars

\* Counting: as Shape on keys 1..MaxKeyC, the calls counted, until
\* MaxRemoves removes have returned true.
NextCount ==
    \/ \E k \in KeysC : Set(k, DefaultV) /\ Count(k) /\ NoMain /\ NoIter /\ RbTreeOnly
    \/ \E k \in KeysC : GetOrInsert(k, DefaultV) /\ Count(k) /\ NoMain /\ NoIter /\ RbTreeOnly
    \/ \E k \in KeysC : IndexAssign(k, DefaultV) /\ Count(k) /\ NoMain /\ NoIter /\ RbTreeOnly
    \/ \E k \in KeysC : removedOk < MaxRemoves /\ Remove(k) /\ Count(k) /\ NoMain /\ NoIter /\ RbTreeOnly

SpecCount == Init /\ [][NextCount]_vars

\* for (const auto key : tree.keys): the loop is entered, it = begin()
KeysBegin ==
    /\ fatal = "none"
    /\ ~iter.on
    /\ iter' = [on |-> TRUE, stack |-> key_begin(Tree), yielded |-> <<>>,
                begun |-> Tree]
    /\ UNCHANGED <<nodes, root, size, ndebug, fatal, last>>

\* it != end(): key = *it; the body runs; ++it
KeysStep ==
    /\ iter.on
    /\ ~IterEq(iter.stack, key_end(Tree))
    /\ iter' = [iter EXCEPT !.yielded = Append(@, IterKey(Tree, iter.stack)),
                            !.stack = IterInc(Tree, iter.stack)]
    /\ UNCHANGED <<nodes, root, size, ndebug, fatal, last>>

\* it == end(): the loop is left and the iterator destroyed
KeysEnd ==
    /\ iter.on
    /\ IterEq(iter.stack, key_end(Tree))
    /\ iter' = NoIterator
    /\ UNCHANGED <<nodes, root, size, ndebug, fatal, last>>

\* Iteration: as Shape on keys 1..MaxKeyC, and range-for loops over
\* tree.keys; no call changes the tree while a loop runs.
NextIter ==
    \/ \E k \in KeysC : ~iter.on /\ Set(k, DefaultV) /\ NoCount /\ NoMain /\ NoIter /\ RbTreeOnly
    \/ \E k \in KeysC : ~iter.on /\ GetOrInsert(k, DefaultV) /\ NoCount /\ NoMain /\ NoIter /\ RbTreeOnly
    \/ \E k \in KeysC : ~iter.on /\ IndexAssign(k, DefaultV) /\ NoCount /\ NoMain /\ NoIter /\ RbTreeOnly
    \/ \E k \in KeysC : ~iter.on /\ Remove(k) /\ NoCount /\ NoMain /\ NoIter /\ RbTreeOnly
    \/ KeysBegin /\ NoCount /\ NoMain /\ RbTreeOnly
    \/ KeysStep /\ NoCount /\ NoMain /\ RbTreeOnly
    \/ KeysEnd /\ NoCount /\ NoMain /\ RbTreeOnly

SpecIter == Init /\ [][NextIter]_vars

\* main(): std::vector<int> keys = { 1, 2, 3, 4, 8, 7, 6, 5 }
MainKeys == <<1, 2, 3, 4, 8, 7, 6, 5>>

\* main(): tree.remove(8)
MainRemoveKey == 8

\* main(): the keys of MainKeys are inserted in order, then MainRemoveKey is
\* removed; pc is the position in MainKeys, Len(MainKeys) + 1 at the remove.
\* main inserts by tree[key] = key * key; here every inserting form and
\* every value of Values takes the place of it.
NextMain ==
    \/ \E v \in Values :
          /\ pc <= Len(MainKeys)
          /\ Set(MainKeys[pc], v) /\ pc' = pc + 1 /\ NoCount /\ NoIter /\ RbTreeOnly
    \/ \E v \in Values :
          /\ pc <= Len(MainKeys)
          /\ GetOrInsert(MainKeys[pc], v) /\ pc' = pc + 1 /\ NoCount /\ NoIter /\ RbTreeOnly
    \/ \E v \in Values :
          /\ pc <= Len(MainKeys)
          /\ IndexAssign(MainKeys[pc], v) /\ pc' = pc + 1 /\ NoCount /\ NoIter /\ RbTreeOnly
    \/ /\ pc = Len(MainKeys) + 1
       /\ Remove(MainRemoveKey) /\ pc' = pc + 1 /\ NoCount /\ NoIter /\ RbTreeOnly

SpecMain == Init /\ [][NextMain]_vars

\* ------------------------------------------------- the program of SegTree
\* the program of segtree.cpp runs, the others do not
SegTreeOnly ==
    UNCHANGED <<nodes, root, size, ndebug, fatal, last, everInserted, created,
                removedOk, pc, iter, bst>>

\* SegTree<long long> segtree(base)
SegConstruct(base) ==
    /\ seg.size = 0
    /\ seg' = With(SegTree(base), LAMBDA st :
              [size |-> st.size, segs |-> st.segs, ref |-> base, updates |-> 0,
               op |-> [name |-> "SegTree"]])

\* segtree.seg_update(l, r, inc); ref is what an array updated position by
\* position holds
SegUpdate(l, r, inc) ==
    /\ seg.size > 0
    /\ seg.updates < MaxUpdates
    /\ seg' = [seg EXCEPT
                !.segs = seg_update(seg, l, r, inc),
                !.ref = [i \in 1..seg.size |->
                            IF l + 1 <= i /\ i <= r + 1 THEN seg.ref[i] + inc
                                                        ELSE seg.ref[i]],
                !.updates = @ + 1,
                !.op = [name |-> "seg_update"]]

\* segtree.query(l, r); the value returned is query(seg, l, r).sum, pushed
\* is whether a tag was pushed down on the way
SegQuery(l, r) ==
    /\ seg.size > 0
    /\ seg' = With(query(seg, l, r), LAMBDA q :
              [seg EXCEPT
                !.segs = q.segs,
                !.op = [name |-> "query", pushed |-> q.segs # seg.segs]])

NextSeg ==
    \/ \E n \in 1..MaxN : \E base \in [1..n -> BaseVals] :
          SegConstruct(base) /\ SegTreeOnly
    \/ \E l \in 0..(seg.size - 1) : \E r \in l..(seg.size - 1) : \E inc \in Incs :
          SegUpdate(l, r, inc) /\ SegTreeOnly
    \/ \E l \in 0..(seg.size - 1) : \E r \in l..(seg.size - 1) :
          SegQuery(l, r) /\ SegTreeOnly

SpecSeg == Init /\ [][NextSeg]_vars

\* --------------------------------------------------------- the program of bst
\* the program of bst.cpp runs, the others do not
BstOnly ==
    UNCHANGED <<nodes, root, size, ndebug, fatal, last, everInserted, created,
                removedOk, pc, iter, seg>>

\* tree::bst::insert(t, data)
BstInsert(data) ==
    /\ bst.ref[data] < MaxCount
    /\ bst' = With(BstCanon(bst_insert(bst, RootSlot, data)), LAMBDA t :
              [nodes |-> t.nodes, root |-> t.root,
               ref |-> [bst.ref EXCEPT ![data] = @ + 1],
               op |-> [name |-> "insert", data |-> data]])

\* auto removed = tree::bst::remove(t, data); removed is the data of the
\* node returned, NULL for nullptr, and held whether the multiset held data
BstRemove(data) ==
    /\ bst' = With(bst_remove(bst, RootSlot, data), LAMBDA r :
              With(BstCanon(r.t), LAMBDA t :
              [nodes |-> t.nodes, root |-> t.root,
               ref |-> [bst.ref EXCEPT ![data] = IF @ > 0 THEN @ - 1 ELSE 0],
               op |-> [name |-> "remove", data |-> data,
                       held |-> bst.ref[data] > 0,
                       removed |-> IF r.ret = NULL THEN NULL
                                   ELSE N(r.t, r.ret).data]]))

NextBst ==
    \/ \E data \in BstKeys : BstInsert(data) /\ BstOnly
    \/ \E data \in BstKeys : BstRemove(data) /\ BstOnly

SpecBst == Init /\ [][NextBst]_vars

\* ------------------------------------------------------------ observations
\* get(key): get_or with a fallback that throws out_of_range; found is FALSE
\* for the not-found error
get(t, key) ==
    LET node == _get(t, key, t.root)
    IN  IF node = NULL THEN [found |-> FALSE, value |-> DefaultV]
        ELSE [found |-> TRUE, value |-> N(t, node).value]

\* Whether a fallback can be handed to get_or, which takes it as a
\* std::function<V&()>: a callable whose result is a V& converts, one whose
\* result is a V (a prvalue) does not.
FallbackConverts(returnsRef) == returnsRef

\* get_or_else(key, def): get_or with the fallback [&def]() { return def; }.
\* The lambda names no result type, so its result is a V: the call of get_or
\* is ill-formed, and a program that calls get_or_else is not built (the
\* body of a member of a class template is checked when it is used).
get_or_else(t, key, def) ==
    IF ~FallbackConverts(FALSE)
    THEN [t |-> t, outcome |-> "ill-formed", value |-> DefaultV]
    ELSE With(_get(t, key, t.root), LAMBDA node :
         [t |-> t, outcome |-> "value",
          value |-> IF node = NULL THEN def ELSE N(t, node).value])

\* the place _get_or_insert descends to for a key the tree does not hold:
\* the null PNode& it assigns the new node to, and the parent it passes
RECURSIVE Descend(_, _, _, _)
Descend(t, key, slot, parent) ==
    LET node == Deref(t, slot)
    IN  IF node = NULL THEN [slot |-> slot, parent |-> parent]
        ELSE IF key < N(t, node).key
        THEN Descend(t, key, [owner |-> node, side |-> LEFT], node)
        ELSE Descend(t, key, [owner |-> node, side |-> RIGHT], node)

\* the tree _maintain_after_insert is first called on when key is inserted
\* with the new node `id`
Linked(t, id, key) ==
    With(Descend(t, key, RootSlot, NULL), LAMBDA d :
    [Link(t, id, key, DefaultV, d.slot, d.parent) EXCEPT !.size = @ + 1])

\* where _maintain_after_insert(node) on tree t reaches Case 5, if it does:
\* Cases 1 to 3 return before it, Case 4 calls again on grandparent
RECURSIVE Case5Entry(_, _)
Case5Entry(t, node) ==
    LET parent == N(t, node).parent
        none == [hit |-> FALSE, t |-> t, node |-> node,
                 parent |-> NULL, grandparent |-> NULL]
    IN  IF parent = NULL \/ is_black(t, parent) THEN none
        ELSE IF parent = t.root THEN none
        ELSE IF N(t, parent).parent = NULL THEN none
        ELSE
        LET grandparent == N(t, parent).parent
        IN  With(sibling(t, parent), LAMBDA uncle :
            IF uncle # NULL /\ is_red(t, uncle)
            THEN Case5Entry(
                     [t EXCEPT !.nodes[parent].color = BLACK,
                               !.nodes[uncle].color = BLACK,
                               !.nodes[grandparent].color = RED],
                     grandparent)
            ELSE [hit |-> TRUE, t |-> t, node |-> node,
                  parent |-> parent, grandparent |-> grandparent])

\* the place that holds node n: root, or the left / right of its parent
SlotOf(t, n) == [owner |-> N(t, n).parent, side |-> direction(t, n)]

\* the keys in in-order position
InOrderKeys(t) ==
    LET io == InOrder(t, t.root)
    IN  [i \in 1..Len(io) |-> N(t, io[i]).key]

StoredKeys(t) == {N(t, n).key : n \in Live(t)}

RECURSIVE CountNodes(_, _)
CountNodes(t, n) ==
    IF n = NULL THEN 0
    ELSE 1 + CountNodes(t, N(t, n).left) + CountNodes(t, N(t, n).right)

\* black nodes on every path from n down to an absent child; -1 when two
\* paths differ
RECURSIVE BlackHeight(_, _)
BlackHeight(t, n) ==
    IF n = NULL THEN 0
    ELSE LET l == BlackHeight(t, N(t, n).left)
             r == BlackHeight(t, N(t, n).right)
         IN  IF l < 0 \/ r < 0 \/ l # r THEN -1
             ELSE l + (IF is_black(t, n) THEN 1 ELSE 0)

NoRedRed(t) ==
    \A n \in Live(t) :
        is_red(t, n) =>
            /\ N(t, n).left # NULL => is_black(t, N(t, n).left)
            /\ N(t, n).right # NULL => is_black(t, N(t, n).right)

\* an operation has completed and the process runs
Completed == fatal = "none" /\ last.op # "init"

\* ------------------------------------------------------------------ claims
\* C1: after each completed insert or remove no RED node has a RED child.
C1_NoRedRed == Completed => NoRedRed(Tree)

\* C2: after each completed insert or remove every path from the root to an
\* absent child passes through the same number of BLACK nodes.
C2_BlackHeightUniform == Completed => BlackHeight(Tree, root) >= 0

\* C3: after each completed insert or remove the root, if present, is BLACK.
C3_RootBlack == Completed /\ root # NULL => is_black(Tree, root)

\* C4: after each completed insert or remove the in-order key sequence is
\* strictly increasing.
C4_InOrderIncreasing ==
    Completed =>
        LET ks == InOrderKeys(Tree)
        IN  \A i \in 1..(Len(ks) - 1) : ks[i] < ks[i + 1]

\* C4 witness: a remove of a node with two children has completed, and the
\* tree still holds three keys
C4_Witness ==
    /\ fatal = "none" /\ last.op = "remove" /\ last.found
    /\ size >= 3
    /\ N(Tree, root).left # NULL /\ N(Tree, root).right # NULL

\* C5 (as stated): after any sequence of inserts and removes size is the
\* number of nodes reachable from the root, and is the number of distinct
\* keys inserted minus the number of removes that returned true; empty() is
\* true exactly when the root is absent.
C5_DistinctKeysMinusRemoves ==
    Completed =>
        /\ size = CountNodes(Tree, root)
        /\ size = Cardinality(everInserted) - removedOk
        /\ empty(Tree) <=> root = NULL

\* C5 (amended): size is the number of nodes reachable from the root, and is
\* the number of inserting calls that created a node minus the number of
\* removes that returned true; empty() is true exactly when the root is
\* absent.
C5_CreatedMinusRemoves ==
    Completed =>
        /\ size = CountNodes(Tree, root)
        /\ size = created - removedOk
        /\ empty(Tree) <=> root = NULL

\* C5 witness: a key was removed and inserted again
C5_Witness ==
    /\ Completed
    /\ removedOk >= 1
    /\ created > Cardinality(everInserted)
    /\ size >= 2

\* C6: for every reachable tree and every key K it contains, remove(K)
\* returns true, afterwards get(K) reports not-found and every other key is
\* still present with its value.
C6_RemoveRoundTrip ==
    fatal = "none" =>
        \A k \in StoredKeys(Tree) :
            With(remove(Tree, k, ndebug), LAMBDA r :
                /\ r.t.err = ""
                /\ r.ret
                /\ ~get(r.t, k).found
                /\ \A j \in StoredKeys(Tree) \ {k} :
                      get(r.t, j).found /\ get(r.t, j) = get(Tree, j))

\* C7: every remove(K) on a reachable tree runs to completion: it never
\* reads through an absent node and never stops in a fatal state.
C7_RemoveCompletes == last.op = "remove" => fatal = "none"

\* C8: set(K, V) on a tree that contains K overwrites the stored value, so
\* that get(K) returns V; no node is created and size is unchanged.
C8_SetOverwrites ==
    fatal = "none" =>
        \A k \in StoredKeys(Tree), v \in Values :
            With(set(Tree, k, v), LAMBDA r :
                /\ r.t.err = ""
                /\ get(r.t, k) = [found |-> TRUE, value |-> v]
                /\ r.t.size = size
                /\ DOMAIN r.t.nodes = DOMAIN nodes)

\* the tree t2 holds key k with value v, one entry more than t, and every
\* key of t with its value
Inserted(t, t2, k, v) ==
    /\ t2.err = ""
    /\ get(t2, k) = [found |-> TRUE, value |-> v]
    /\ t2.size = t.size + 1
    /\ \A j \in StoredKeys(t) : get(t2, j).found /\ get(t2, j) = get(t, j)

\* C9: inserting an absent key K with value V, by set, by get_or_insert or
\* by the writable indexed accessor followed by assignment, makes get(K)
\* return V, increases size by one and keeps every stored key and value.
C9_InsertAbsent ==
    fatal = "none" =>
        \A k \in KeysV \ StoredKeys(Tree), v \in Values :
            /\ Inserted(Tree, set(Tree, k, v).t, k, v)
            /\ Inserted(Tree, get_or_insert(Tree, k, v).t, k, v)
            /\ Inserted(Tree, index_assign(Tree, k, v).t, k, v)

\* C10: get_or_insert(K, factory) on a tree that contains K never calls the
\* factory and changes nothing: value, shape, colors and size stay.
C10_GetOrInsertExisting ==
    fatal = "none" =>
        \A k \in StoredKeys(Tree), v \in Values :
            With(get_or_insert(Tree, k, v), LAMBDA r :
                /\ r.calls = 0
                /\ r.t = Tree
                /\ r.ref = _get(Tree, k, root))

\* C10 witness: get_or_insert has returned without a factory call on a tree
\* of three entries
C10_Witness ==
    /\ fatal = "none"
    /\ last.op = "get_or_insert" /\ last.calls = 0
    /\ size >= 3

\* C11: stepping an iterator from begin until it is exhausted yields every
\* stored key exactly once in strictly ascending order, takes exactly size
\* steps and leaves the tree unchanged; on an empty tree begin equals end.
C11_IterationInOrder ==
    iter.on =>
        /\ Tree = iter.begun
        /\ \A i \in 1..(Len(iter.yielded) - 1) : iter.yielded[i] < iter.yielded[i + 1]
        /\ empty(Tree) => IterEq(iter.stack, key_end(Tree))
        /\ IterEq(iter.stack, key_end(Tree)) =>
              /\ Len(iter.yielded) = size
              /\ {iter.yielded[i] : i \in 1..Len(iter.yielded)} = StoredKeys(Tree)
              /\ iter.yielded = InOrderKeys(Tree)

\* C11 witness: a loop over a tree of four keys, of which the root has two
\* children, is exhausted
C11_Witness ==
    /\ iter.on
    /\ IterEq(iter.stack, key_end(Tree))
    /\ Len(iter.yielded) >= 4
    /\ N(Tree, root).left # NULL /\ N(Tree, root).right # NULL

\* C12: remove(K) on a tree that does not contain K returns false and leaves
\* the tree unchanged: same nodes, shape, colors, values and size.
C12_RemoveAbsent ==
    fatal = "none" =>
        \A k \in KeysV \ StoredKeys(Tree) :
            remove(Tree, k, ndebug) = [t |-> Tree, ret |-> FALSE]

\* C12 witness: a remove has returned false on a tree of two entries or more
C12_Witness ==
    /\ Completed
    /\ last.op = "remove" /\ ~last.found
    /\ size >= 2

\* C13: on a tree that does not contain K, get(K) ends in the not-found
\* error and get_or_else(K, D) returns D; neither changes the tree.
C13_LookupAbsent ==
    fatal = "none" =>
        \A k \in KeysV \ StoredKeys(Tree), d \in Values :
            /\ ~get(Tree, k).found
            /\ get_or_else(Tree, k, d) = [t |-> Tree, outcome |-> "value", value |-> d]

\* C14: inserting the keys 1,2,3,4,8,7,6,5 in that order into an empty
\* TreeMap yields a tree whose root key is 4, whose root is BLACK, that has no
\* RED node with a RED child, and whose black-height is 2 on every path.
C14_MainInserts ==
    pc = Len(MainKeys) + 1 =>
        /\ fatal = "none"
        /\ N(Tree, root).key = 4
        /\ is_black(Tree, root)
        /\ NoRedRed(Tree)
        /\ BlackHeight(Tree, root) = 2

\* C14 witness: the eighth insert has returned
C14_Witness ==
    /\ pc = Len(MainKeys) + 1
    /\ fatal = "none"
    /\ last.op = "index_assign"
    /\ size = Len(MainKeys)

\* C15: from the tree built by inserting 1,2,3,4,8,7,6,5, remove(8) returns
\* true, size becomes 7, the in-order key sequence is 1,2,3,4,5,6,7 and the
\* root is BLACK, no RED node has a RED child and black-height is uniform.
C15_MainRemove ==
    pc = Len(MainKeys) + 2 =>
        /\ fatal = "none"
        /\ last.found
        /\ size = 7
        /\ InOrderKeys(Tree) = <<1, 2, 3, 4, 5, 6, 7>>
        /\ is_black(Tree, root)
        /\ NoRedRed(Tree)
        /\ BlackHeight(Tree, root) >= 0

\* C15 witness: remove(8) has returned on the tree of eight keys
C15_Witness ==
    /\ pc = Len(MainKeys) + 2
    /\ fatal = "none"
    /\ last.op = "remove"
    /\ size = Len(MainKeys) - 1

\* after Case 5 on entry e, the node in grandparent's former place is BLACK
\* and its children are the other two of node, parent, grandparent, both RED
Case5Post(e) ==
    With(InsertCase5(e.t, e.node, e.parent, e.grandparent), LAMBDA r :
    /\ r.err = ""
    /\ With(Deref(r, SlotOf(e.t, e.grandparent)), LAMBDA top :
          /\ top \in {e.node, e.parent, e.grandparent}
          /\ is_black(r, top)
          /\ N(r, top).left # N(r, top).right
          /\ {N(r, top).left, N(r, top).right} = {e.node, e.parent, e.grandparent} \ {top}
          /\ is_red(r, N(r, top).left)
          /\ is_red(r, N(r, top).right)))

\* C16: when insert fix-up reaches case 5, afterwards the node in the
\* grandparent's former position is BLACK and its two children are the
\* other two of node, parent, grandparent, both RED, whether node and parent
\* are on the same side or on different sides.
C16_InsertCase5 ==
    fatal = "none" =>
        \A k \in Keys \ StoredKeys(Tree) :
            With(NewId(Tree), LAMBDA id :
            With(Case5Entry(Linked(Tree, id, k), id), LAMBDA e :
            e.hit => Case5Post(e)))

\* C17: whenever _maintain_after_remove is entered, also when Case 3 enters
\* it again on the parent, the node it is given is BLACK and has no
\* children: the assert at its start holds on every reachable call.
C17_RemoveFixupAssert ==
    fatal = "none" =>
        \A k \in StoredKeys(Tree) : remove(Tree, k, FALSE).t.err # "assert"

\* C18: when remove targets a node with two children, the node whose key
\* and value are copied into it is the right-most node of its left subtree,
\* also when the left child has no right child (it is then the left child);
\* that predecessor has at most one child.
C18_Predecessor ==
    fatal = "none" =>
        \A n \in Live(Tree) :
            (N(Tree, n).left # NULL /\ N(Tree, n).right # NULL) =>
                With(prev(Tree, n), LAMBDA pr :
                /\ pr # NULL
                /\ pr = WalkRight(Tree, N(Tree, n).left)
                /\ N(Tree, pr).right = NULL)

\* C19: in every reachable tree a node with exactly one child is BLACK and
\* that child is RED.
C19_OneChildBlackRed ==
    Completed =>
        \A n \in Live(Tree) :
            ((N(Tree, n).left = NULL) # (N(Tree, n).right = NULL)) =>
                /\ is_black(Tree, n)
                /\ is_red(Tree, only_child(Tree, n))

\* a single rotation r of tree t keeps the links consistent and the keys in
\* their in-order position
RotationKeeps(t, r) ==
    /\ r.err = ""
    /\ WellLinked(r)
    /\ InOrderKeys(r) = InOrderKeys(t)

\* C20: after every completed insert or remove the root has no parent, every
\* node that is a child of a node P has P as its parent and no node is the
\* child of two nodes; each single rotation preserves this and the in-order
\* key sequence.
C20_ParentLinks ==
    Completed =>
        /\ WellLinked(Tree)
        /\ \A n \in Live(Tree) :
              /\ N(Tree, n).right # NULL => RotationKeeps(Tree, _rotate_left(Tree, n))
              /\ N(Tree, n).left # NULL => RotationKeeps(Tree, _rotate_right(Tree, n))

\* C20 witness: a completed call has left a tree in which a rotation moves
\* a subtree from one side to the other
C20_Witness ==
    /\ Completed
    /\ size >= 4
    /\ \E n \in Live(Tree) :
          /\ N(Tree, n).right # NULL
          /\ N(Tree, N(Tree, n).right).left # NULL

\* the sum over positions l..r (0-based) of the array a
RECURSIVE RefSum(_, _, _)
RefSum(a, l, r) == IF l > r THEN 0 ELSE a[l + 1] + RefSum(a, l + 1, r)

\* C21: on a SegTree built from an array of size n >= 1, after any sequence
\* of seg_update(l, r, inc) and query(l, r) with 0 <= l <= r < n, every
\* query(l, r) returns the sum over l..r of the array updated position by
\* position, whatever tags are pending (in every state the calls reach,
\* each query(l, r) returns that sum).
C21_QueryIsReferenceSum ==
    seg.size > 0 =>
        \A l \in 0..(seg.size - 1) : \A r \in l..(seg.size - 1) :
            query(seg, l, r).sum = RefSum(seg.ref, l, r)

\* a query pushed a pending tag down after two updates, and a tag is still
\* pending below the root
C21_Witness ==
    /\ seg.size > 1
    /\ seg.updates >= 2
    /\ seg.op.name = "query"
    /\ seg.op.pushed
    /\ \E id \in 2..(seg.size * 4 - 1) : seg.segs[id].tag # 0

\* the in-order sequence of (key, count) of the tree
BstPairs(t) ==
    [i \in 1..Len(BstInOrder(t)) |->
        <<N(t, BstInOrder(t)[i]).data, N(t, BstInOrder(t)[i]).count>>]

\* the (key, count) of the multiset from key k on, keys increasing
RECURSIVE RefPairs(_, _)
RefPairs(ref, k) ==
    IF k > MaxBstKey THEN <<>>
    ELSE (IF ref[k] > 0 THEN <<(<<k, ref[k]>>)>> ELSE <<>>) \o RefPairs(ref, k + 1)

\* C22: under any sequence of bst::insert and bst::remove the tree is the
\* multiset of the keys inserted and not removed: after every operation its
\* in-order sequence of (key, count) is that of the reference multiset, keys
\* strictly increasing (so an insert of a stored key only increments its
\* count, a remove at count > 1 only decrements it, a remove at count 1
\* deletes exactly that key, whatever the children of its node), and a
\* remove of an absent key returns null.
C22_BstIsMultiset ==
    /\ BstPairs(bst) = RefPairs(bst.ref, 1)
    /\ bst.op.name = "remove" /\ ~bst.op.held => bst.op.removed = NULL

====
